---- MODULE Spec2Model ----
(***************************************************************************)
(* MPSharedList (core/mplib/MPSharedList.py): a read-only list of pickled  *)
(* objects kept in one shared byte array per baked list, with list concat  *)
(* via + and sum(), and ArrayFillerSubprocessor, the worker-pool client    *)
(* that fills the data region of the array.                                *)
(*                                                                         *)
(* Two state machines share the variables below.                           *)
(*   Spec      the container API: MPSharedList(obj_list), +, sum(), len(), *)
(*             [] on a heap of MPSharedList instances.  A constructor call *)
(*             is one step, the pool's run() included.                     *)
(*   FillSpec  one bake_data call opened up: the host loop of the pool,    *)
(*             the workers' byte copies, deadlines and crashes.            *)
(*   FairFill  FillSpec with the fairness of the host loop and workers.    *)
(***************************************************************************)
EXTENDS Integers, Sequences, FiniteSets, TLC

(* ---------------------------------------------------------------------- *)
(* Bounds                                                                  *)
(* ---------------------------------------------------------------------- *)
\* longest obj_list handed to MPSharedList(obj_list)
MaxLen == 2
\* most MPSharedList instances alive on the heap
MaxObjs == 3
\* most lists summed by one sum() call
MaxSum == 2
\* multiprocessing.cpu_count() ranges over 1..MaxCpu
MaxCpu == 2

\* the objects put into lists: the strings "", "a" (as code points)
Objects == { <<>>, <<97>> }

(* ---------------------------------------------------------------------- *)
(* Bytes, struct.pack / struct.unpack, slices of a RawArray                *)
(* ---------------------------------------------------------------------- *)
Min(a, b) == IF a < b THEN a ELSE b

RECURSIVE PackLE(_, _)
\* k little-endian bytes of n
PackLE(n, k) == IF k = 0 THEN <<>> ELSE <<n % 256>> \o PackLE(n \div 256, k - 1)

\* struct.pack('<Q', n)
PackQ(n) == PackLE(n, 8)

RECURSIVE PackQs(_)
\* struct.pack('<' + 'Q'*len(ns), *ns)
PackQs(ns) == IF ns = <<>> THEN <<>> ELSE PackQ(Head(ns)) \o PackQs(Tail(ns))

RECURSIVE UnpackLE(_)
\* the unsigned integer held by little-endian bytes b
UnpackLE(b) == IF b = <<>> THEN 0 ELSE Head(b) + 256 * UnpackLE(Tail(b))

\* b[lo:hi] of a bytes object or RawArray (0-based, hi exclusive, clamped)
Slice(b, lo, hi) == SubSeq(b, lo + 1, Min(hi, Len(b)))

\* sh_b[lo:lo+len(src)] = src
SliceAssign(b, lo, src) ==
    [i \in 1..Len(b) |-> IF lo < i /\ i <= lo + Len(src) THEN src[i - lo] ELSE b[i]]

\* multiprocessing.RawArray('B', n): n zero bytes
RawArray(n) == [i \in 1..n |-> 0]

RECURSIVE SumSeq(_)
\* sum(xs)
SumSeq(xs) == IF xs = <<>> THEN 0 ELSE Head(xs) + SumSeq(Tail(xs))

(* ---------------------------------------------------------------------- *)
(* pickle protocol 4 on short strings: SHORT_BINUNICODE len | bytes | STOP *)
(* (the PROTO, FRAME and MEMOIZE opcodes, the same for every object, are   *)
(* left out)                                                               *)
(* ---------------------------------------------------------------------- *)
SHORT_BINUNICODE == 140
STOP == 46

\* pickle.dumps(o, 4)
Dumps(o) == <<SHORT_BINUNICODE, Len(o)>> \o o \o <<STOP>>

\* the value no pickle decodes to: pickle.loads raised UnpicklingError
Unpickleable == <<-1>>

\* pickle.loads(b)
Loads(b) ==
    IF /\ Len(b) >= 3
       /\ b[1] = SHORT_BINUNICODE
       /\ b[2] = Len(b) - 3
       /\ b[Len(b)] = STOP
    THEN SubSeq(b, 3, Len(b) - 1)
    ELSE Unpickleable

(* ---------------------------------------------------------------------- *)
(* MPSharedList.bake_data, up to the call of the pool                      *)
(* ---------------------------------------------------------------------- *)
\* bytes per entry of the offset table ('Q')
EntrySize == 8

\* obj_pickled_ar = [pickle.dumps(o, 4) for o in obj_list]
PickledAr(obj_list) == [i \in 1..Len(obj_list) |-> Dumps(obj_list[i])]

\* table_offset = 0
TableOffset == 0

\* table_size = (obj_count+1)*8
TableSize(obj_count) == (obj_count + 1) * EntrySize

\* data_offset = table_offset + table_size
DataOffset(table_offset, table_size) == table_offset + table_size

\* data_size = sum([len(x) for x in obj_pickled_ar])
DataSize(obj_pickled_ar) == SumSeq([i \in 1..Len(obj_pickled_ar) |-> Len(obj_pickled_ar[i])])

\* Offsets with the running offset advanced before it is appended
Offsets_Late(obj_pickled_ar) ==
    [i \in 1..Len(obj_pickled_ar) + 1 |->
        SumSeq([j \in 1..Min(i, Len(obj_pickled_ar)) |-> Len(obj_pickled_ar[j])])]

\* the offsets list after the loop and the final append: obj_count+1 prefix sums
Offsets(obj_pickled_ar) ==
    [i \in 1..Len(obj_pickled_ar) + 1 |->
        SumSeq([j \in 1..i - 1 |-> Len(obj_pickled_ar[j])])]

\* sh_b after the header and the table were stored, before the pool runs
BakedTable(obj_pickled_ar) ==
    LET obj_count  == Len(obj_pickled_ar)
        table_size == TableSize(obj_count)
        sh_b0 == RawArray(table_size + DataSize(obj_pickled_ar))
        sh_b1 == SliceAssign(sh_b0, 0, PackQ(obj_count))
    IN  SliceAssign(sh_b1, TableOffset, PackQs(Offsets(obj_pickled_ar)))

\* WorkItems with the items addressed from the start of the array
WorkItems_NoBase(obj_pickled_ar) ==
    [i \in 1..Len(obj_pickled_ar) |-> <<Offsets(obj_pickled_ar)[i], obj_pickled_ar[i]>>]

\* [ (data_offset+offsets[i], obj_pickled_ar[i]) for i in range(obj_count) ]
WorkItems(obj_pickled_ar) ==
    LET data_offset == DataOffset(TableOffset, TableSize(Len(obj_pickled_ar)))
        offsets == Offsets(obj_pickled_ar)
    IN  [i \in 1..Len(obj_pickled_ar) |-> <<data_offset + offsets[i], obj_pickled_ar[i]>>]

(* ---------------------------------------------------------------------- *)
(* ArrayFillerSubprocessor: the host callbacks and the worker's step       *)
(* ---------------------------------------------------------------------- *)
\* no work item: get_data returned None
NoData == <<-1, <<>>>>

\* workers yielded by process_info_generator
CpuCap == 8
NumClis(cpu_count) == Min(cpu_count, CpuCap)

\* get_data: pop(0) of a non-empty data_list, else None
get_data(dl) ==
    IF Len(dl) > 0 THEN [ret |-> Head(dl), data_list |-> Tail(dl)]
    ELSE [ret |-> NoData, data_list |-> dl]

\* on_data_return with the item appended at the back
on_data_return_Append(dl, data) == dl \o <<data>>

\* on_data_return: data_list.insert(0, data)
on_data_return(dl, data) == <<data>> \o dl

\* Cli.process_data: the whole slice store sh_b[offset:offset+len(b)] = b
process_data(b, data) == SliceAssign(b, data[1], data[2])

\* Cli.process_data interrupted after k bytes of the copy
process_data_upto(b, data, k) == process_data(b, <<data[1], SubSeq(data[2], 1, k)>>)

RECURSIVE RunInOrder(_, _, _)
\* run() of the pool with no fault: every item processed once, in some order
RunInOrder(b, items, order) ==
    IF order = <<>> THEN b
    ELSE RunInOrder(process_data(b, items[Head(order)]), items, Tail(order))

\* the orders in which n items can complete
Orders(n) == { f \in [1..n -> 1..n] : \A i, j \in 1..n : i # j => f[i] # f[j] }

\* bake_data(obj_list); input is [kind, items], order the pool's completion order
bake_data(input, order) ==
    IF input.kind # "list"
    THEN [err |-> "ValueError", obj_count |-> 0, table_offset |-> 0,
          data_offset |-> 0, sh_b |-> <<>>]
    ELSE IF Len(input.items) = 0
    THEN \* the return statement reads table_offset, which was never assigned
         [err |-> "UnboundLocalError", obj_count |-> 0, table_offset |-> 0,
          data_offset |-> 0, sh_b |-> <<>>]
    ELSE LET ar == PickledAr(input.items)
         IN  [err |-> "none", obj_count |-> Len(ar), table_offset |-> TableOffset,
              data_offset |-> DataOffset(TableOffset, TableSize(Len(ar))),
              sh_b |-> RunInOrder(BakedTable(ar), WorkItems(ar), order)]

(* ---------------------------------------------------------------------- *)
(* MPSharedList instances: four parallel lists, sh_bs holding indices of   *)
(* the shared arrays in shm                                                *)
(* ---------------------------------------------------------------------- *)
\* __len__
len(m) == SumSeq(m.obj_counts)

\* if key < 0: key = obj_count+key
Normalize(key, obj_count) == IF key < 0 THEN obj_count + key ELSE key

\* OutOfRange with the upper end off by one
OutOfRange_Incl(key, obj_count) == key < 0 \/ key > obj_count

\* if key < 0 or key >= obj_count: raise ValueError("out of range")
OutOfRange(key, obj_count) == key < 0 \/ key >= obj_count

RECURSIVE Scan_NoSub(_, _, _)
\* Scan without key -= self.obj_counts[i]
Scan_NoSub(obj_counts, i, key) ==
    IF i > Len(obj_counts) THEN <<0, key>>
    ELSE IF key < obj_counts[i] THEN <<i, key>>
    ELSE Scan_NoSub(obj_counts, i + 1, key)

RECURSIVE Scan(_, _, _)
\* the for loop of __getitem__ from component i on: <<component, local key>>,
\* component 0 when the loop ends without a break
Scan(obj_counts, i, key) ==
    IF i > Len(obj_counts) THEN <<0, key>>
    ELSE IF key < obj_counts[i] THEN <<i, key>>
    ELSE Scan(obj_counts, i + 1, key - obj_counts[i])

\* __getitem__(key) of instance m over the arrays store: the error raised, the
\* object returned and the slices of shared arrays that were read
getitem(m, store, key) ==
    LET obj_count == SumSeq(m.obj_counts)
        k1 == Normalize(key, obj_count)
    IN  IF OutOfRange(k1, obj_count)
        THEN [err |-> "ValueError", val |-> <<>>, reads |-> {}]
        ELSE
        LET at == Scan(m.obj_counts, 1, k1)
            i  == at[1]
            k  == at[2]
        IN  IF i = 0
            THEN [err |-> "UnboundLocalError", val |-> <<>>, reads |-> {}]
            ELSE
            LET table_offset == m.table_offsets[i]
                data_offset  == m.data_offsets[i]
                sh_b  == store[m.sh_bs[i]]
                tlo   == table_offset + k * EntrySize
                thi   == table_offset + (k + 2) * EntrySize
                tb    == Slice(sh_b, tlo, thi)
            IN  IF Len(tb) # 2 * EntrySize
                THEN [err |-> "struct.error", val |-> <<>>,
                      reads |-> {<<m.sh_bs[i], tlo, thi>>}]
                ELSE
                LET offset_start == UnpackLE(SubSeq(tb, 1, EntrySize))
                    offset_end   == UnpackLE(SubSeq(tb, EntrySize + 1, 2 * EntrySize))
                    dlo == data_offset + offset_start
                    dhi == data_offset + offset_end
                    o   == Loads(Slice(sh_b, dlo, dhi))
                IN  [err |-> IF o = Unpickleable THEN "UnpicklingError" ELSE "none",
                     val |-> IF o = Unpickleable THEN <<>> ELSE o,
                     reads |-> {<<m.sh_bs[i], tlo, thi>>, <<m.sh_bs[i], dlo, dhi>>}]

\* the new instance of __add__: the four lists of self followed by those of o
Concat(a, b) ==
    [obj_counts    |-> a.obj_counts    \o b.obj_counts,
     table_offsets |-> a.table_offsets \o b.table_offsets,
     data_offsets  |-> a.data_offsets  \o b.data_offsets,
     sh_bs         |-> a.sh_bs         \o b.sh_bs]

\* IsInt with the int branch of __add__ missing
IsInt_Never(o) == o.kind = "MPSharedList"

\* isinstance(o, int)
IsInt(o) == o.kind = "int"

\* self + o on heap h: the heap afterwards, the instance returned (0 if none)
\* and the error raised.  An operand is [kind, ref]: an instance of the heap,
\* an int, or an object of another class.
add(h, self, o) ==
    IF o.kind = "MPSharedList"
    THEN [heap |-> Append(h, Concat(h[self], h[o.ref])), ret |-> Len(h) + 1, err |-> "none"]
    ELSE IF IsInt(o)
    THEN [heap |-> h, ret |-> self, err |-> "none"]
    ELSE [heap |-> h, ret |-> 0, err |-> "ValueError"]

\* __radd__: return self+o
radd(h, self, o) == add(h, self, o)

RECURSIVE SumFrom(_, _, _)
\* the loop of sum(cs): acc = acc + c for each c left, acc an instance; an
\* error raised by + ends the call
SumFrom(h, acc, cs) ==
    IF cs = <<>> THEN [heap |-> h, ret |-> acc, err |-> "none"]
    ELSE LET r == add(h, acc, [kind |-> "MPSharedList", ref |-> Head(cs)])
         IN  IF r.err # "none" THEN r ELSE SumFrom(r.heap, r.ret, Tail(cs))

\* sum(cs), cs non-empty: 0 + cs[0] falls to cs[0].__radd__(0), then the loop
sum(h, cs) ==
    LET first == radd(h, Head(cs), [kind |-> "int", ref |-> 0])
    IN  IF first.err # "none" THEN first ELSE SumFrom(first.heap, first.ret, Tail(cs))

(* ---------------------------------------------------------------------- *)
(* State                                                                   *)
(* ---------------------------------------------------------------------- *)
VARIABLES
    heap,       \* the MPSharedList instances alive, by identity 1..Len(heap)
    shm,        \* the shared arrays (RawArray) allocated by finished bakes
    elems,      \* per instance, the objects it was made to hold (history)
    last,       \* the last API call: its arguments and its outcome
    sh_b,       \* FillSpec: the array being filled
    data_list,  \* FillSpec: ArrayFillerSubprocessor.data_list
    clis,       \* FillSpec: per worker, its state, the item sent and bytes copied
    run,        \* FillSpec: "running", "done"
    poisoned,   \* FillSpec: the items no worker ever answers for
    obj_list    \* FillSpec: the list being baked

apiVars == <<heap, shm, elems, last>>
fillVars == <<sh_b, data_list, clis, run, poisoned, obj_list>>
vars == <<heap, shm, elems, last, sh_b, data_list, clis, run, poisoned, obj_list>>

\* every list of at most MaxLen objects
Lists == UNION { [1..n -> Objects] : n \in 0..MaxLen }

\* what MPSharedList(...) is called with: a list, or something that is no list
Inputs == { [kind |-> "list", items |-> L] : L \in Lists }
            \cup { [kind |-> "other", items |-> <<>>] }

\* the ints and the objects of other classes used as operands of +
Scalars == { [kind |-> "int", ref |-> 0], [kind |-> "int", ref |-> 1],
             [kind |-> "str", ref |-> 0] }

Refs(h) == { [kind |-> "MPSharedList", ref |-> i] : i \in 1..Len(h) }

\* the keys tried on an instance of n objects
Keys(n) == (0 - n - 2)..(n + 1)

NoCall == [op |-> "none", self |-> 0, o |-> [kind |-> "int", ref |-> 0], key |-> 0,
           input |-> [kind |-> "other", items |-> <<>>], cs |-> <<>>,
           err |-> "none", ret |-> 0, val |-> <<>>, reads |-> {}]

\* the fill variables while no bake is opened up
FillIdle ==
    /\ sh_b = <<>> /\ data_list = <<>> /\ clis = <<>> /\ run = "idle"
    /\ poisoned = {} /\ obj_list = <<>>

Init ==
    /\ heap = <<>> /\ shm = <<>> /\ elems = <<>> /\ last = NoCall
    /\ FillIdle

(* ---------------------------------------------------------------------- *)
(* The container API                                                       *)
(* ---------------------------------------------------------------------- *)
\* m = MPSharedList(obj_list)
New(input, order) ==
    /\ Len(heap) < MaxObjs
    /\ LET r == bake_data(input, order)
       IN  /\ IF r.err = "none"
              THEN /\ shm' = Append(shm, r.sh_b)
                   /\ heap' = Append(heap, [obj_counts    |-> <<r.obj_count>>,
                                            table_offsets |-> <<r.table_offset>>,
                                            data_offsets  |-> <<r.data_offset>>,
                                            sh_bs         |-> <<Len(shm) + 1>>])
                   /\ elems' = Append(elems, input.items)
              ELSE UNCHANGED <<shm, heap, elems>>
           /\ last' = [NoCall EXCEPT !.op = "new", !.input = input, !.err = r.err,
                          !.ret = IF r.err = "none" THEN Len(heap) + 1 ELSE 0]
    /\ UNCHANGED fillVars

\* heap[self] + o
Add(self, o) ==
    /\ o.kind = "MPSharedList" => Len(heap) < MaxObjs
    /\ LET r == add(heap, self, o)
       IN  /\ heap' = r.heap
           /\ elems' = IF Len(r.heap) > Len(heap)
                       THEN Append(elems, elems[self] \o elems[o.ref]) ELSE elems
           /\ last' = [NoCall EXCEPT !.op = "add", !.self = self, !.o = o,
                          !.err = r.err, !.ret = r.ret]
    /\ UNCHANGED <<shm>>
    /\ UNCHANGED fillVars

\* o + heap[self] for an o that is no MPSharedList: o.__add__ does not apply
\* and Python calls heap[self].__radd__(o)
RAdd(o, self) ==
    /\ LET r == radd(heap, self, o)
       IN  /\ heap' = r.heap
           /\ last' = [NoCall EXCEPT !.op = "radd", !.self = self, !.o = o,
                          !.err = r.err, !.ret = r.ret]
    /\ UNCHANGED <<shm, elems>>
    /\ UNCHANGED fillVars

RECURSIVE Flatten(_, _)
\* the objects of the instances cs, in order
Flatten(es, cs) == IF cs = <<>> THEN <<>> ELSE es[Head(cs)] \o Flatten(es, Tail(cs))

\* sum(cs) over a non-empty list of instances; the intermediate sums are
\* dropped once the call returns
Sum(cs) ==
    /\ Len(cs) > 1 => Len(heap) < MaxObjs
    /\ LET r == sum(heap, cs)
           kept == SubSeq(r.heap, 1, Len(heap))
           fresh == r.ret > Len(heap)
       IN  /\ heap' = IF fresh THEN Append(kept, r.heap[r.ret]) ELSE kept
           /\ elems' = IF fresh THEN Append(elems, Flatten(elems, cs)) ELSE elems
           /\ last' = [NoCall EXCEPT !.op = "sum", !.cs = cs, !.err = r.err,
                          !.ret = IF fresh THEN Len(heap) + 1 ELSE r.ret]
    /\ UNCHANGED <<shm>>
    /\ UNCHANGED fillVars

\* len(heap[self])
LenOf(self) ==
    /\ last' = [NoCall EXCEPT !.op = "len", !.self = self, !.ret = len(heap[self])]
    /\ UNCHANGED <<heap, shm, elems>>
    /\ UNCHANGED fillVars

\* heap[self][key]
Get(self, key) ==
    /\ LET r == getitem(heap[self], shm, key)
       IN  last' = [NoCall EXCEPT !.op = "get", !.self = self, !.key = key,
                       !.err = r.err, !.val = r.val, !.reads = r.reads]
    /\ UNCHANGED <<heap, shm, elems>>
    /\ UNCHANGED fillVars

Next ==
    \/ \E input \in Inputs : \E order \in Orders(Len(input.items)) : New(input, order)
    \/ \E self \in 1..Len(heap) : \E o \in Refs(heap) \cup Scalars : Add(self, o)
    \/ \E self \in 1..Len(heap) : \E o \in Scalars : RAdd(o, self)
    \/ \E n \in 1..MaxSum : \E cs \in [1..n -> 1..Len(heap)] : Sum(cs)
    \/ \E self \in 1..Len(heap) : LenOf(self)
    \/ \E self \in 1..Len(heap) : \E key \in Keys(len(heap[self])) : Get(self, key)

Spec == Init /\ [][Next]_vars

(* ---------------------------------------------------------------------- *)
(* One bake_data call opened up: the pool's host loop and its workers      *)
(* ---------------------------------------------------------------------- *)
\* the API variables while a single bake is looked at
ApiIdle == heap = <<>> /\ shm = <<>> /\ elems = <<>> /\ last = NoCall

\* a worker that holds no item
Cli(state) == [state |-> state, sent_data |-> NoData, copied |-> 0]

\* the offsets of the items of dl
OffsetsOf(dl) == { dl[i][1] : i \in 1..Len(dl) }

\* bake_data reaches the pool: the table is stored, every item is pending and
\* one worker per process_info_generator entry is being spawned
FillInit ==
    /\ ApiIdle
    /\ obj_list \in Lists \ { <<>> }
    /\ sh_b = BakedTable(PickledAr(obj_list))
    /\ data_list = WorkItems(PickledAr(obj_list))
    /\ \E cpu_count \in 1..MaxCpu : clis = [w \in 1..NumClis(cpu_count) |-> Cli("SPAWNING")]
    /\ run = "running"
    /\ poisoned = {}

\* the same, with at most one item poisoned: whichever worker gets it never
\* answers
PoisonInit ==
    /\ ApiIdle
    /\ obj_list \in Lists \ { <<>> }
    /\ sh_b = BakedTable(PickledAr(obj_list))
    /\ data_list = WorkItems(PickledAr(obj_list))
    /\ \E cpu_count \in 1..MaxCpu : clis = [w \in 1..NumClis(cpu_count) |-> Cli("SPAWNING")]
    /\ run = "running"
    /\ poisoned \in { P \in SUBSET OffsetsOf(data_list) : Cardinality(P) <= 1 }

Busy(w) == clis[w].state = "BUSY"

\* SPAWNING -> READY
Spawn(w) ==
    /\ run = "running"
    /\ clis[w].state = "SPAWNING"
    /\ clis' = [clis EXCEPT ![w] = Cli("READY")]
    /\ UNCHANGED <<sh_b, data_list, run, poisoned, obj_list>>
    /\ UNCHANGED apiVars

\* host loop, step 2: a READY worker is sent the item get_data returns
Dispatch(w) ==
    /\ run = "running"
    /\ clis[w].state = "READY"
    /\ LET r == get_data(data_list)
       IN  /\ r.ret # NoData
           /\ data_list' = r.data_list
           /\ clis' = [clis EXCEPT ![w] = [state |-> "BUSY", sent_data |-> r.ret,
                                                copied |-> 0]]
    /\ UNCHANGED <<sh_b, run, poisoned, obj_list>>
    /\ UNCHANGED apiVars

\* the worker's process_data: the slice store moves one more byte
CopyByte(w) ==
    /\ Busy(w)
    /\ clis[w].copied < Len(clis[w].sent_data[2])
    /\ sh_b' = process_data_upto(sh_b, clis[w].sent_data, clis[w].copied + 1)
    /\ clis' = [clis EXCEPT ![w].copied = @ + 1]
    /\ UNCHANGED <<data_list, run, poisoned, obj_list>>
    /\ UNCHANGED apiVars

\* host loop, step 3: the result arrives before the deadline; on_result passes
Result(w) ==
    /\ Busy(w)
    /\ clis[w].copied = Len(clis[w].sent_data[2])
    /\ clis[w].sent_data[1] \notin poisoned
    /\ clis' = [clis EXCEPT ![w] = Cli("READY")]
    /\ UNCHANGED <<sh_b, data_list, run, poisoned, obj_list>>
    /\ UNCHANGED apiVars

\* host loop, step 4: the item goes back through on_data_return and the
\* worker is terminated and respawned
Requeue(w) ==
    /\ data_list' = on_data_return(data_list, clis[w].sent_data)
    /\ clis' = [clis EXCEPT ![w] = Cli("SPAWNING")]

\* a worker holding a healthy item misses its deadline or crashes
Timeout(w) ==
    /\ Busy(w)
    /\ clis[w].sent_data[1] \notin poisoned
    /\ Requeue(w)
    /\ UNCHANGED <<sh_b, run, poisoned, obj_list>>
    /\ UNCHANGED apiVars

\* the deadline of a worker holding a poisoned item expires
PoisonTimeout(w) ==
    /\ Busy(w)
    /\ clis[w].sent_data[1] \in poisoned
    /\ Requeue(w)
    /\ UNCHANGED <<sh_b, run, poisoned, obj_list>>
    /\ UNCHANGED apiVars

\* host loop, step 5: nothing pending and no worker BUSY; run() returns and
\* bake_data returns the array
Finish ==
    /\ run = "running"
    /\ data_list = <<>>
    /\ \A w \in 1..Len(clis) : ~Busy(w)
    /\ run' = "done"
    /\ UNCHANGED <<sh_b, data_list, clis, poisoned, obj_list>>
    /\ UNCHANGED apiVars

FillNext ==
    \/ \E w \in 1..Len(clis) : Spawn(w)
    \/ \E w \in 1..Len(clis) : Dispatch(w)
    \/ \E w \in 1..Len(clis) : CopyByte(w)
    \/ \E w \in 1..Len(clis) : Result(w)
    \/ \E w \in 1..Len(clis) : Timeout(w)
    \/ Finish

FillSpec == FillInit /\ [][FillNext]_vars

\* The host loop never stops polling and every wait is deadline-bounded: a
\* step of the loop or of a live worker that stays possible is taken.  A
\* deadline miss or crash of a worker holding a healthy item may or may not
\* happen.
Fairness ==
    /\ \A w \in 1..NumClis(MaxCpu) : WF_vars(w <= Len(clis) /\ Spawn(w))
    /\ \A w \in 1..NumClis(MaxCpu) : WF_vars(w <= Len(clis) /\ Dispatch(w))
    /\ \A w \in 1..NumClis(MaxCpu) : WF_vars(w <= Len(clis) /\ CopyByte(w))
    /\ \A w \in 1..NumClis(MaxCpu) : WF_vars(w <= Len(clis) /\ Result(w))
    /\ WF_vars(Finish)

FairFill == FillInit /\ [][FillNext]_vars /\ Fairness

PoisonNext ==
    \/ \E w \in 1..Len(clis) : Spawn(w)
    \/ \E w \in 1..Len(clis) : Dispatch(w)
    \/ \E w \in 1..Len(clis) : CopyByte(w)
    \/ \E w \in 1..Len(clis) : Result(w)
    \/ \E w \in 1..Len(clis) : Timeout(w)
    \/ \E w \in 1..Len(clis) : PoisonTimeout(w)
    \/ Finish

\* the deadline of a worker that never answers does expire
PoisonFairness ==
    /\ Fairness
    /\ \A w \in 1..NumClis(MaxCpu) : WF_vars(w <= Len(clis) /\ PoisonTimeout(w))

PoisonFill == PoisonInit /\ [][PoisonNext]_vars /\ PoisonFairness

(* ---------------------------------------------------------------------- *)
(* Properties of the container API (Spec)                                  *)
(* ---------------------------------------------------------------------- *)
\* what iterating instance m yields: the outcome of m[0], ..., m[len(m)-1]
Contents(m) == [i \in 1..len(m) |-> getitem(m, shm, i - 1)]

\* the instance came from MPSharedList(obj_list), not from +
IsBaked(m) == Len(m.obj_counts) = 1

Zero == [kind |-> "int", ref |-> 0]

\* C1: round trip.  For a baked instance of a non-empty list L, len() is
\* len(L), and [i] for 0 <= i < len(L) reads exactly the byte range the work
\* item of L[i] was written to, which holds pickle.dumps(L[i]), and returns
\* an object equal to L[i].
C1_RoundTrip ==
    /\ (last.op = "len" /\ IsBaked(heap[last.self]))
          => last.ret = Len(elems[last.self])
    /\ (last.op = "get" /\ IsBaked(heap[last.self])
            /\ 0 <= last.key /\ last.key < Len(elems[last.self]))
          => LET L    == elems[last.self]
                 seg  == heap[last.self].sh_bs[1]
                 item == WorkItems(PickledAr(L))[last.key + 1]
                 lo   == item[1]
                 hi   == item[1] + Len(item[2])
             IN  /\ last.err = "none"
                 /\ last.val = L[last.key + 1]
                 /\ <<seg, lo, hi>> \in last.reads
                 /\ Slice(shm[seg], lo, hi) = Dumps(L[last.key + 1])

\* C1 witness: the second object of a baked two-object list was read back
C1_Witness ==
    /\ last.op = "get" /\ last.key = 1 /\ last.err = "none"
    /\ IsBaked(heap[last.self])
    /\ elems[last.self] = << <<>>, <<97>> >>
    /\ last.val = <<97>>

\* C2 (as claimed): MPSharedList([]) raises nothing and returns an instance
\* of length 0.
C2_EmptyListBuilds ==
    (last.op = "new" /\ last.input = [kind |-> "list", items |-> <<>>])
        => /\ last.err = "none"
           /\ last.ret \in 1..Len(heap)
           /\ len(heap[last.ret]) = 0

\* the owning component of global index k (0-based) and the index inside it,
\* from the component sizes alone
RECURSIVE Owner(_, _)
Owner(counts, k) ==
    IF k < Head(counts) THEN <<1, k>>
    ELSE LET r == Owner(Tail(counts), k - Head(counts)) IN <<r[1] + 1, r[2]>>

C4_IndexValidation ==
    last.op = "get" =>
        LET m == heap[last.self]
            n == len(m)
        IN  /\ (last.key < 0 - n \/ last.key >= n)
                  => (last.err = "ValueError" /\ last.reads = {})
            /\ (0 - n <= last.key /\ last.key < 0)
                  => /\ last.err = "none"
                     /\ last.val = getitem(m, shm, last.key + n).val
                     /\ last.reads = getitem(m, shm, last.key + n).reads
                     /\ last.val = elems[last.self][last.key + n + 1]

\* C4 witness: [-1] was read on an instance of several components and gave
\* its last object
C4_Witness ==
    /\ last.op = "get" /\ last.key = 0 - 1 /\ last.err = "none"
    /\ Len(heap[last.self].obj_counts) > 1
    /\ last.val = elems[last.self][Len(elems[last.self])]

\* C5 (as claimed): in every baked array of n objects the 8 bytes at offset 0
\* hold n as a little-endian u64, the table of n+1 entries lies in its own
\* region from table_offset, clear of the header, and the data region starts
\* at data_offset = table_offset + (n+1)*8.
C5_HeaderTableData ==
    \A c \in 1..Len(heap) : \A i \in 1..Len(heap[c].sh_bs) :
        LET n == heap[c].obj_counts[i]
            table_offset == heap[c].table_offsets[i]
            data_offset  == heap[c].data_offsets[i]
            arr == shm[heap[c].sh_bs[i]]
        IN  /\ UnpackLE(Slice(arr, 0, EntrySize)) = n
            /\ table_offset >= EntrySize
            /\ data_offset = table_offset + (n + 1) * EntrySize

\* C6 (as claimed): + with an operand that is neither an MPSharedList nor the
\* int 0 raises and returns no instance, on either side.
C6_RejectsOtherOperands ==
    (last.op \in {"add", "radd"} /\ last.o.kind # "MPSharedList" /\ last.o # Zero)
        => (last.err = "ValueError" /\ last.ret = 0)

\* the objects instance m yields, when no read of it fails
Objs(m) == [i \in 1..len(m) |-> Contents(m)[i].val]
Readable(m) == \A i \in 1..len(m) : Contents(m)[i].err = "none"

\* C7: 0 is an identity of + on both sides and sum() works.  a + 0 and 0 + a
\* raise nothing and give an instance with the length and the objects of a, in
\* order; sum([c1..ck]) gives an instance holding the objects of c1, then c2,
\* ..., then ck; and no instance ever yields other objects than those it was
\* made with.
C7_ZeroIdentity ==
    /\ (last.op \in {"add", "radd"} /\ last.o = Zero)
          => /\ last.err = "none"
             /\ last.ret \in 1..Len(heap)
             /\ len(heap[last.ret]) = Len(elems[last.self])
             /\ Readable(heap[last.ret])
             /\ Objs(heap[last.ret]) = elems[last.self]
    /\ last.op = "sum"
          => /\ last.err = "none"
             /\ last.ret \in 1..Len(heap)
             /\ Readable(heap[last.ret])
             /\ Objs(heap[last.ret]) = Flatten(elems, last.cs)
    /\ \A c \in 1..Len(heap) : Readable(heap[c]) /\ Objs(heap[c]) = elems[c]

\* C7 witness: sum() of two different baked lists returned
C7_Witness ==
    /\ last.op = "sum" /\ last.err = "none" /\ Len(last.cs) = 2
    /\ elems[last.cs[1]] # elems[last.cs[2]]
    /\ last.ret = 3

(* ---------------------------------------------------------------------- *)
(* Properties of the parallel fill (FillSpec, FairFill)                    *)
(* ---------------------------------------------------------------------- *)
RECURSIVE Flat(_)
\* byte strings joined back to back
Flat(bs) == IF bs = <<>> THEN <<>> ELSE Head(bs) \o Flat(Tail(bs))

\* the work items bake_data created for the list being baked
Items == WorkItems(PickledAr(obj_list))

\* the bytes [lo, hi) an item addresses
Lo(item) == item[1]
Hi(item) == item[1] + Len(item[2])

\* where the data region of the array being filled starts
DataStart == TableSize(Len(obj_list))

\* nothing is pending and no worker is busy
Drained == data_list = <<>> /\ \A w \in 1..Len(clis) : ~Busy(w)

\* C8: the fill does not depend on scheduling.  The work items address
\* pairwise disjoint byte ranges inside the data region; whatever the number
\* of workers, the assignment of items and the interleaving of the copies,
\* once nothing is pending and no worker is busy the data region is the
\* pickles joined in input order; and the workers never change the table.
C8_SchedulingIndependent ==
    LET items == Items
        ar == PickledAr(obj_list)
    IN  /\ \A i, j \in 1..Len(items) :
              i # j => (Hi(items[i]) <= Lo(items[j]) \/ Hi(items[j]) <= Lo(items[i]))
        /\ \A i \in 1..Len(items) :
              DataStart <= Lo(items[i]) /\ Hi(items[i]) <= Len(sh_b)
        /\ Drained => Slice(sh_b, DataStart, Len(sh_b)) = Flat(ar)
        /\ Slice(sh_b, 0, DataStart) = PackLE(0, EntrySize) \o
              Flat([i \in 1..Len(ar) |-> PackLE(Len(Flat(SubSeq(ar, 1, i))), EntrySize)])

\* C8 witness: two workers drained a list of two objects
C8_Witness ==
    /\ run = "done" /\ Drained
    /\ Len(clis) = 2 /\ Len(obj_list) = 2

\* how often item occurs in data_list, and among the items workers hold
Pending(item) == Cardinality({ i \in 1..Len(data_list) : data_list[i] = item })
Held(item) == Cardinality({ w \in 1..Len(clis) : Busy(w) /\ clis[w].sent_data = item })

\* the array a run with no fault leaves
FaultFree == RunInOrder(BakedTable(PickledAr(obj_list)), Items,
                        [i \in 1..Len(Items) |-> i])

\* a worker lost the item it held in this step
Returned(w) == Busy(w) /\ clis'[w].state = "SPAWNING"

\* C9: recovery from a deadline miss or crash.  The step that takes an item
\* from a worker puts exactly that item at the front of data_list; every item
\* is at any time pending once, held by one worker, or fully copied, never
\* lost and never twice in the pool; and when the deadline misses and crashes
\* stop at some point the run ends, with the array a fault-free run leaves,
\* also after a worker was cut off with part or all of its range copied.
C9_FaultRecovery ==
    /\ [][\A w \in 1..Len(clis) :
             Returned(w) => data_list' = <<clis[w].sent_data>> \o data_list]_vars
    /\ [](LET items == Items
          IN  \A i \in 1..Len(items) :
                 /\ Pending(items[i]) + Held(items[i]) <= 1
                 /\ Pending(items[i]) + Held(items[i]) = 0
                       => Slice(sh_b, Lo(items[i]), Hi(items[i])) = items[i][2])
    /\ [](run = "done" => sh_b = FaultFree)
    /\ \/ []<><<\E w \in 1..NumClis(MaxCpu) : w <= Len(clis) /\ Timeout(w)>>_vars
       \/ <>(run = "done")

\* C9 witness: an item is back at the front of data_list, ahead of another
\* item, with all of its range already copied by the worker that lost it
C9_Witness ==
    /\ Len(data_list) = 2
    /\ Held(data_list[1]) = 0
    /\ Slice(sh_b, Lo(data_list[1]), Hi(data_list[1])) = data_list[1][2]
    /\ \E w \in 1..Len(clis) : clis[w].state = "SPAWNING"

\* C10 (as claimed): a poisoned item is not requeued for ever; the bake ends
\* in a failed state and bake_data returns nothing.
C10_PoisonedItemFails == (poisoned # {}) ~> (run = "failed")
====
